---- MODULE Spec2Model ----
(***************************************************************************)
(* The process registry of aps_demo.py (class APSCommandDemo): the role    *)
(* assignment file, the *.aps.yaml process documents of base_path, the     *)
(* template document, and the four commands aps_init, aps_start,           *)
(* aps_handoff and aps_status.                                             *)
(*                                                                         *)
(* Python strings are sequences of one-character strings, so that          *)
(* replace, lower, strip, split, startswith, endswith and `in` are         *)
(* computed as the code computes them.  A YAML document is kept in its     *)
(* loaded form (what yaml.safe_load returns for it).                       *)
(***************************************************************************)
EXTENDS Integers, Sequences, FiniteSets, TLC

\* ------------------------------------------------------------- bounds

\* The clock values the model goes through: every command that stamps a
\* time (aps_init, aps_start, a handoff that writes) uses one.
MaxTime == 3

\* The concurrent callers of aps_handoff in SpecConc.
NumCallers == 2

\* ------------------------------------------------------------ strings

UpperChars == <<"A", "B", "C", "D", "E", "F", "G", "H", "I", "J", "K", "L", "M",
                "N", "O", "P", "Q", "R", "S", "T", "U", "V", "W", "X", "Y", "Z">>

LowerChars == <<"a", "b", "c", "d", "e", "f", "g", "h", "i", "j", "k", "l", "m",
                "n", "o", "p", "q", "r", "s", "t", "u", "v", "w", "x", "y", "z">>

DigitChars == <<"0", "1", "2", "3", "4", "5", "6", "7", "8", "9">>

Whitespace == {" ", "\n", "\t"}

\* str.lower() of one character
LowerChar(c) ==
  IF \E i \in 1..Len(UpperChars) : UpperChars[i] = c
  THEN LowerChars[CHOOSE i \in 1..Len(UpperChars) : UpperChars[i] = c]
  ELSE c

\* str.lower()
Lower(s) == [i \in 1..Len(s) |-> LowerChar(s[i])]

\* str.replace(old, new) for one-character old and new
Replace(s, old, new) == [i \in 1..Len(s) |-> IF s[i] = old THEN new ELSE s[i]]

\* s.startswith(p)
StartsWith(s, p) == Len(p) <= Len(s) /\ SubSeq(s, 1, Len(p)) = p

\* s.endswith(p)
EndsWith(s, p) == Len(p) <= Len(s) /\ SubSeq(s, Len(s) - Len(p) + 1, Len(s)) = p

\* w in s (substring)
Contains(s, w) == \E i \in 1..(Len(s) - Len(w) + 1) : SubSeq(s, i, i + Len(w) - 1) = w

RECURSIVE StripLeft(_)
StripLeft(s) == IF s # <<>> /\ Head(s) \in Whitespace THEN StripLeft(Tail(s)) ELSE s

RECURSIVE StripRight(_)
StripRight(s) ==
  IF s # <<>> /\ s[Len(s)] \in Whitespace THEN StripRight(SubSeq(s, 1, Len(s) - 1)) ELSE s

\* str.strip()
Strip(s) == StripRight(StripLeft(s))

RECURSIVE SplitFrom(_, _, _)
SplitFrom(s, sep, cur) ==
  IF s = <<>> THEN <<cur>>
  ELSE IF Head(s) = sep THEN <<cur>> \o SplitFrom(Tail(s), sep, <<>>)
  ELSE SplitFrom(Tail(s), sep, Append(cur, Head(s)))

\* str.split(sep) for a one-character sep
Split(s, sep) == SplitFrom(s, sep, <<>>)

RECURSIVE IntToStr(_)
\* the decimal digits of a natural number, as the f-string writes them
IntToStr(n) ==
  IF n < 10 THEN <<DigitChars[n + 1]>>
  ELSE IntToStr(n \div 10) \o <<DigitChars[(n % 10) + 1]>>

\* ---------------------------------------------------- program literals

SeqPrefix == <<"0", "0", "1", "_">>

RequirementsSuffix == <<"_", "r", "e", "q", "u", "i", "r", "e", "m", "e", "n", "t", "s",
                        ".", "a", "p", "s", ".", "y", "a", "m", "l">>

ApsSuffix == <<".", "a", "p", "s", ".", "y", "a", "m", "l">>

TemplateName == <<"a", "p", "s", "_", "t", "e", "m", "p", "l", "a", "t", "e",
                  ".", "y", "a", "m", "l">>

RoleFileName == <<".", "c", "l", "a", "u", "d", "e", "_", "r", "o", "l", "e", "_",
                  "a", "s", "s", "i", "g", "n", "m", "e", "n", "t">>

RequirementsGathering == <<"r", "e", "q", "u", "i", "r", "e", "m", "e", "n", "t", "s", "_",
                           "g", "a", "t", "h", "e", "r", "i", "n", "g">>

WaitingFor == <<"w", "a", "i", "t", "i", "n", "g", "_", "f", "o", "r", "_">>

ActiveWord == <<"a", "c", "t", "i", "v", "e">>

Unknown == <<"u", "n", "k", "n", "o", "w", "n">>

PM_Agent == <<"P", "M", "_", "A", "g", "e", "n", "t">>

Developer_Agent == <<"D", "e", "v", "e", "l", "o", "p", "e", "r", "_", "A", "g", "e", "n", "t">>

ClaudePrefix == <<"c", "l", "a", "u", "d", "e", "_">>

CurrentAgent == <<"C", "u", "r", "r", "e", "n", "t", "_", "A", "g", "e", "n", "t">>

HandoffFor == <<"H", "a", "n", "d", "o", "f", "f", " ", "f", "o", "r", " ">>

ReadyFor == <<"P", "r", "o", "c", "e", "s", "s", " ", "r", "e", "a", "d", "y", " ", "f", "o", "r", " ">>

ToBeginWork == <<" ", "t", "o", " ", "b", "e", "g", "i", "n", " ", "w", "o", "r", "k">>

\* ---------------------------------------------------------- documents

\* The keys of the process mapping the commands read or write, in the
\* order yaml.dump writes them (sort_keys is left at its default, True).
ProcKeyOrder == <<"created_at", "id", "messages", "name", "status", "updated_at">>

\* A process mapping: `keys` says which of the fields are present.
NoProc == [keys |-> {}, name |-> <<>>, id |-> <<>>, created_at |-> 0, updated_at |-> 0,
           status |-> <<>>, messages |-> <<>>]

\* What yaml.safe_load gives for a document:
\*   kind    "garbage" (the load raises), "empty" (None) or "map";
\*   process "absent", "null" (present, not a mapping) or "map", then proc;
\*   claim   "absent", "null", "nostatus" (a mapping without status) or
\*           "status" (a mapping whose status is cstatus).
MkDoc(kind, process, proc, claim, cstatus) ==
  [kind |-> kind, process |-> process, proc |-> proc, claim |-> claim, cstatus |-> cstatus]

EmptyDoc == MkDoc("empty", "absent", NoProc, "absent", <<>>)

GarbageDoc == MkDoc("garbage", "absent", NoProc, "absent", <<>>)

\* ------------------------------------------------------------- inputs

\* Process names given to aps_start: "a", "a b" and "a_b".
ProcessNames == {<<"a">>, <<"a", " ", "b">>, <<"a", "_", "b">>}

\* Target roles given to aps_handoff: "Arch" and "qa".
TargetRoles == {<<"A", "r", "c", "h">>, <<"q", "a">>}

\* Documents found in base_path that no command of this run wrote.
OldDoc ==
  MkDoc("map", "map",
        [NoProc EXCEPT !.keys = {"name", "status"}, !.name = <<"O", "l", "d">>,
                       !.status = <<"d", "o", "n", "e">>],
        "status", <<"c", "l", "a", "i", "m", "e", "d">>)

NoProcessDoc == MkDoc("map", "absent", NoProc, "status", <<"c", "l", "a", "i", "m", "e", "d">>)

NullProcessDoc == MkDoc("map", "null", NoProc, "absent", <<>>)

NoNameDoc ==
  MkDoc("map", "map", [NoProc EXCEPT !.keys = {"status"}, !.status = <<"d", "o", "n", "e">>],
        "absent", <<>>)

NamedDoc(n, claim, cstatus) ==
  MkDoc("map", "map", [NoProc EXCEPT !.keys = {"name"}, !.name = n], claim, cstatus)

AmbientDir ==
  (<<"0", "0", "1", "_", "o", "l", "d", ".", "a", "p", "s", ".", "y", "a", "m", "l">> :> OldDoc)
  @@ (<<"0", "0", "1", "_", "b", "a", "d", ".", "a", "p", "s", ".", "y", "a", "m", "l">> :> GarbageDoc)
  @@ (<<"0", "0", "3", "_", "n", "i", "l", ".", "a", "p", "s", ".", "y", "a", "m", "l">> :> EmptyDoc)
  @@ (<<"0", "0", "4", "_", "n", "o", "p", ".", "a", "p", "s", ".", "y", "a", "m", "l">> :> NoProcessDoc)
  @@ (<<"0", "0", "5", "_", "p", "n", "l", ".", "a", "p", "s", ".", "y", "a", "m", "l">> :> NullProcessDoc)
  @@ (<<"0", "0", "6", "_", "n", "n", "m", ".", "a", "p", "s", ".", "y", "a", "m", "l">> :> NoNameDoc)
  @@ (<<"0", "0", "7", "_", "c", "s", "t", ".", "a", "p", "s", ".", "y", "a", "m", "l">>
        :> NamedDoc(<<"c", "s", "t">>, "status", <<"c", "l", "a", "i", "m", "e", "d">>))
  @@ (<<"0", "0", "8", "_", "c", "n", "l", ".", "a", "p", "s", ".", "y", "a", "m", "l">>
        :> NamedDoc(<<"c", "n", "l">>, "null", <<>>))
  @@ (<<"0", "0", "9", "_", "c", "n", "s", ".", "a", "p", "s", ".", "y", "a", "m", "l">>
        :> NamedDoc(<<"c", "n", "s">>, "nostatus", <<>>))
  @@ (<<"0", "1", "0", "_", "n", "c", "l", ".", "a", "p", "s", ".", "y", "a", "m", "l">>
        :> NamedDoc(<<"n", "c", "l">>, "absent", <<>>))

NoDocs == [f \in {} |-> EmptyDoc]

\* The lines of a role assignment file, as readlines() returns them.
SampleLedger ==
  << <<"1", ":", "P", "M", ":", "s", "1", ":", "a", "c", "t", "i", "v", "e", "\n">>,
     <<"2", ":", "D", "e", "v", ":", "s", "2", ":", "i", "n", "a", "c", "t", "i", "v", "e", "\n">>,
     <<"a", "c", "t", "i", "v", "e", ":", "x", "\n">>,
     <<"3", ":", "Q", "A", ":", "s", "3", ":", "d", "o", "n", "e", "\n">>,
     <<" ", "5", ":", "P", "M", ":", "s", "5", ":", "a", "c", "t", "i", "v", "e", " ", "\n">> >>

\* The template document: a process mapping with placeholder fields, with
\* or without a messages list.
PlainTemplate ==
  MkDoc("map", "map", [NoProc EXCEPT !.keys = {"created_at", "id", "name", "status"}],
        "absent", <<>>)

MessagesTemplate ==
  MkDoc("map", "map",
        [NoProc EXCEPT !.keys = {"created_at", "id", "messages", "name", "status"}],
        "absent", <<>>)

\* process_id arguments of aps_handoff: the ids aps_start gives the
\* process names, and the bare sequence prefix "001_".
ProcessId(process_name) == SeqPrefix \o Replace(process_name, " ", "_")

HandoffIds == {ProcessId(n) : n \in ProcessNames} \cup {SeqPrefix}

\* -------------------------------------------------------------- state

VARIABLES
  files,      \* the process documents of base_path: file name -> loaded document
  roleFile,   \* .claude_role_assignment: [exists, lines]
  template,   \* aps_template.yaml: [exists, doc]
  now,        \* the clock: the value the next datetime.now() returns
  ret,        \* what the last command returned and printed
  hp          \* SpecConc: each concurrent aps_handoff caller's position and locals

vars == <<files, roleFile, template, now, ret, hp>>

Callers == 1..NumCallers

IdleCaller == [pc |-> "idle", process_id |-> <<>>, target_role |-> <<>>, filename |-> <<>>,
               data |-> EmptyDoc, before |-> EmptyDoc, flushed |-> 0]

NoRet == [op |-> "none", outcome |-> "none", name |-> <<>>, pid |-> <<>>, target |-> <<>>,
          role |-> <<>>, session |-> <<>>, file |-> <<>>, agents |-> <<>>, procs |-> NoDocs]

Init ==
  /\ files \in {NoDocs, AmbientDir}
  /\ roleFile \in {[exists |-> FALSE, lines |-> <<>>], [exists |-> TRUE, lines |-> SampleLedger]}
  /\ template \in {[exists |-> FALSE, doc |-> EmptyDoc], [exists |-> TRUE, doc |-> PlainTemplate],
                   [exists |-> TRUE, doc |-> MessagesTemplate]}
  /\ now = 0
  /\ ret = NoRet
  /\ hp = [c \in Callers |-> IdleCaller]

\* os.listdir(base_path)
Listing ==
  DOMAIN files
    \cup (IF roleFile.exists THEN {RoleFileName} ELSE {})
    \cup (IF template.exists THEN {TemplateName} ELSE {})

\* [f for f in os.listdir(...) if f.endswith('.aps.yaml')]
ApsFiles(listing) == {f \in listing : EndsWith(f, ApsSuffix)}

\* ----------------------------------------------------------- aps_init

\* AssignRole with the test off by one: one process document still gives PM.
AssignRoleOffByOne(aps_files) ==
  IF Cardinality(aps_files) <= 1 THEN PM_Agent ELSE Developer_Agent

AssignRole(aps_files) == IF aps_files = {} THEN PM_Agent ELSE Developer_Agent

SessionId(timestamp) == ClaudePrefix \o IntToStr(timestamp)

\* The assignment line aps_init builds (and prints).
Assignment(timestamp, role, session_id) ==
  IntToStr(timestamp) \o <<":">> \o role \o <<":">> \o session_id \o <<":">> \o ActiveWord

ApsInit ==
  /\ UNCHANGED <<files, roleFile, template, hp>>
  /\ IF ~roleFile.exists
     THEN /\ ret' = [NoRet EXCEPT !.op = "init", !.outcome = "MissingLedger"]
          /\ UNCHANGED now
     ELSE /\ now < MaxTime
          /\ now' = now + 1
          /\ ret' = [NoRet EXCEPT !.op = "init", !.outcome = "ok",
                                  !.role = AssignRole(ApsFiles(Listing)),
                                  !.session = SessionId(now)]

\* ---------------------------------------------------------- aps_start

FileName(process_id) == process_id \o RequirementsSuffix

\* The template with name, id, created_at and status overwritten.
Customized(tpl, process_name, process_id, t) ==
  [tpl EXCEPT !.proc = [@ EXCEPT !.keys = @ \cup {"name", "id", "created_at", "status"},
                                 !.name = process_name,
                                 !.id = process_id,
                                 !.created_at = t,
                                 !.status = RequirementsGathering]]

\* open(output_path, 'w') and yaml.dump: the file is created or replaced.
WriteFile(dir, filename, doc) ==
  [f \in DOMAIN dir \cup {filename} |-> IF f = filename THEN doc ELSE dir[f]]

ApsStart(process_name) ==
  LET process_id == ProcessId(process_name)
      filename == FileName(process_id)
  IN /\ UNCHANGED <<roleFile, template, hp>>
     /\ IF ~template.exists
        THEN /\ ret' = [NoRet EXCEPT !.op = "start", !.outcome = "TemplateMissing",
                                     !.name = process_name]
             /\ UNCHANGED <<files, now>>
        ELSE /\ now < MaxTime
             /\ now' = now + 1
             /\ files' = WriteFile(files, filename,
                                   Customized(template.doc, process_name, process_id, now))
             /\ ret' = [NoRet EXCEPT !.op = "start", !.outcome = "ok", !.name = process_name,
                                     !.pid = process_id, !.file = filename]

\* -------------------------------------------------------- aps_handoff

\* [f for f in os.listdir(...) if f.startswith(process_id) and f.endswith('.aps.yaml')]
HandoffMatches(listing, process_id) ==
  {f \in listing : StartsWith(f, process_id) /\ EndsWith(f, ApsSuffix)}

NewMessage(process_id, target_role, filename, t) ==
  [from |-> CurrentAgent, to |-> target_role, timestamp |-> t,
   subject |-> HandoffFor \o process_id,
   content |-> ReadyFor \o target_role \o ToBeginWork,
   artifacts |-> << [path |-> filename, type |-> "handoff", status |-> "ready"] >>]

HandoffStatus(target_role) == WaitingFor \o Lower(target_role)

\* yaml.safe_load returned a mapping whose 'process' is a mapping: the
\* lines that index process_data['process'] do not raise.
CanUpdate(doc) == doc.kind = "map" /\ doc.process = "map"

\* process_data after the message is appended and status and updated_at set
Updated(doc, process_id, target_role, filename, t) ==
  [doc EXCEPT !.proc =
     [@ EXCEPT !.keys = @ \cup {"messages", "status", "updated_at"},
               !.messages = Append(IF "messages" \in doc.proc.keys THEN @ ELSE <<>>,
                                   NewMessage(process_id, target_role, filename, t)),
               !.status = HandoffStatus(target_role),
               !.updated_at = t]]

HandoffRet(process_id, target_role, outcome, filename) ==
  [NoRet EXCEPT !.op = "handoff", !.outcome = outcome, !.pid = process_id,
                !.target = target_role, !.file = filename]

\* aps_files[0]: os.listdir gives the names in no particular order, so any
\* matching file may be the first.
ApsHandoff(process_id, target_role) ==
  LET aps_files == HandoffMatches(Listing, process_id)
  IN /\ UNCHANGED <<roleFile, template, hp>>
     /\ IF aps_files = {}
        THEN /\ ret' = HandoffRet(process_id, target_role, "ProcessNotFound", <<>>)
             /\ UNCHANGED <<files, now>>
        ELSE \E filename \in aps_files :
               IF CanUpdate(files[filename])
               THEN /\ now < MaxTime
                    /\ now' = now + 1
                    /\ files' = [files EXCEPT ![filename] =
                                   Updated(@, process_id, target_role, filename, now)]
                    /\ ret' = HandoffRet(process_id, target_role, "ok", filename)
               ELSE /\ ret' = HandoffRet(process_id, target_role, "raised", filename)
                    /\ UNCHANGED <<files, now>>

\* --------------------------------------------------------- aps_status

RECURSIVE ActiveAgents(_)
\* the (role, session, status) triples collected from the lines
ActiveAgents(lines) ==
  IF lines = <<>> THEN <<>>
  ELSE LET line == Head(lines)
           parts == Split(Strip(line), ":")
       IN (IF Contains(line, <<":">>) /\ Contains(line, ActiveWord) /\ Len(parts) >= 4
           THEN << <<parts[2], parts[3], parts[4]>> >>
           ELSE <<>>)
          \o ActiveAgents(Tail(lines))

ParseError(filename) == [kind |-> "parse_error", name |-> filename, status |-> <<>>]

ProcessLine(process_name, process_status) ==
  [kind |-> "process", name |-> process_name, status |-> process_status]

\* What the loop body prints for one file.  The except clause catches:
\* a load that raises; None['process']; a missing 'process' key; a
\* 'process' that is no mapping; a missing 'name'; and `'status' in
\* data['claim']` when claim is None.
ReportLine(filename, data) ==
  IF data.kind # "map" \/ data.process # "map" \/ "name" \notin data.proc.keys
  THEN ParseError(filename)
  ELSE IF "status" \in data.proc.keys THEN ProcessLine(data.proc.name, data.proc.status)
  ELSE IF data.claim = "absent" THEN ProcessLine(data.proc.name, Unknown)
  ELSE IF data.claim = "null" THEN ParseError(filename)
  ELSE IF data.claim = "status" THEN ProcessLine(data.proc.name, data.cstatus)
  ELSE ProcessLine(data.proc.name, Unknown)

\* The report is kept per file: the order of os.listdir is unspecified.
ApsStatus ==
  /\ UNCHANGED <<files, roleFile, template, now, hp>>
  /\ ret' = [NoRet EXCEPT !.op = "status", !.outcome = "ok",
                          !.agents = IF roleFile.exists THEN ActiveAgents(roleFile.lines)
                                     ELSE <<>>,
                          !.procs = [f \in ApsFiles(Listing) |-> ReportLine(f, files[f])]]

\* ------------------------------------------------------ specification

Next ==
  \/ ApsInit
  \/ \E process_name \in ProcessNames : ApsStart(process_name)
  \/ \E process_id \in HandoffIds, target_role \in TargetRoles :
       ApsHandoff(process_id, target_role)
  \/ ApsStatus

Spec == Init /\ [][Next]_vars

\* ------------------------------- aps_handoff under concurrent callers

\* What the file holds after the first k keys of the process mapping have
\* reached it: yaml.dump writes the keys in sorted order through a
\* buffered text file, which passes the text on in buffer-sized pieces, so
\* a document longer than the buffer is on disk in part before close().
Torn(doc, k) ==
  LET written == doc.proc.keys \cap {ProcKeyOrder[i] : i \in 1..k}
  IN [doc EXCEPT !.proc =
        [keys |-> written,
         name |-> IF "name" \in written THEN doc.proc.name ELSE <<>>,
         id |-> IF "id" \in written THEN doc.proc.id ELSE <<>>,
         created_at |-> IF "created_at" \in written THEN doc.proc.created_at ELSE 0,
         updated_at |-> IF "updated_at" \in written THEN doc.proc.updated_at ELSE 0,
         status |-> IF "status" \in written THEN doc.proc.status ELSE <<>>,
         messages |-> IF "messages" \in written THEN doc.proc.messages ELSE <<>>]]

\* Lines 89-117: the caller lists the directory, reads the file it picked
\* and builds the updated process_data in memory.  (A caller that finds no
\* file, or whose read raises, ends without touching anything.)
HandoffLoad(c, process_id, target_role) ==
  /\ hp[c].pc = "idle"
  /\ now < MaxTime
  /\ \E filename \in HandoffMatches(Listing, process_id) :
       /\ CanUpdate(files[filename])
       /\ hp' = [hp EXCEPT ![c] =
                   [IdleCaller EXCEPT !.pc = "loaded", !.process_id = process_id,
                                      !.target_role = target_role, !.filename = filename,
                                      !.data = Updated(files[filename], process_id,
                                                       target_role, filename, now)]]
  /\ now' = now + 1
  /\ UNCHANGED <<files, roleFile, template, ret>>

\* Line 120: open(filepath, 'w') truncates the file.  `before` keeps what
\* the file held.  Two callers writing the same file through two
\* descriptors at once is left out: one caller writes at a time.
HandoffOpen(c) ==
  /\ hp[c].pc = "loaded"
  /\ \A d \in Callers : hp[d].pc # "writing"
  /\ hp[c].filename \in DOMAIN files
  /\ hp' = [hp EXCEPT ![c].pc = "writing", ![c].before = files[hp[c].filename],
                      ![c].flushed = 0]
  /\ files' = [files EXCEPT ![hp[c].filename] = EmptyDoc]
  /\ UNCHANGED <<roleFile, template, now, ret>>

\* Line 121, yaml.dump under way: a full buffer is written out.
HandoffFlush(c) ==
  /\ hp[c].pc = "writing"
  /\ \E k \in (hp[c].flushed + 1)..(Len(ProcKeyOrder) - 1) :
       /\ hp' = [hp EXCEPT ![c].flushed = k]
       /\ files' = [files EXCEPT ![hp[c].filename] = Torn(hp[c].data, k)]
  /\ UNCHANGED <<roleFile, template, now, ret>>

\* Leaving the with block: the rest is written and the file closed.
HandoffClose(c) ==
  /\ hp[c].pc = "writing"
  /\ files' = [files EXCEPT ![hp[c].filename] = hp[c].data]
  /\ hp' = [hp EXCEPT ![c] = IdleCaller]
  /\ UNCHANGED <<roleFile, template, now, ret>>

ConcStart(process_name) ==
  /\ \A c \in Callers : hp[c].pc = "idle"
  /\ ApsStart(process_name)

InitConc ==
  /\ Init
  /\ files = NoDocs
  /\ template.exists
  /\ ~roleFile.exists

NextConc ==
  \/ \E process_name \in ProcessNames : ConcStart(process_name)
  \/ \E c \in Callers, process_id \in HandoffIds, target_role \in TargetRoles :
       HandoffLoad(c, process_id, target_role)
  \/ \E c \in Callers : HandoffOpen(c)
  \/ \E c \in Callers : HandoffFlush(c)
  \/ \E c \in Callers : HandoffClose(c)
  \/ ApsStatus

SpecConc == InitConc /\ [][NextConc]_vars

\* -------------------------------------------------------------- claims

\* The process ids of the stored records.
StoredIds == {files[f].proc.id : f \in {g \in DOMAIN files : "id" \in files[g].proc.keys}}

\* Every document of the directory is a record aps_start wrote (the
\* directory held no other document to begin with).
AllRegistered ==
  \A f \in DOMAIN files :
    files[f].kind = "map" /\ files[f].process = "map" /\ "id" \in files[f].proc.keys

\* The messages of a record, empty when it has no messages field.
MessagesOf(doc) == IF "messages" \in doc.proc.keys THEN doc.proc.messages ELSE <<>>

\* C1: no aps_start call returns a process_id that a stored record already
\* has (so the ids returned by any sequence of calls are pairwise distinct).
C1_FreshProcessId ==
  [][(ret'.op = "start" /\ ret'.outcome = "ok") => ret'.pid \notin StoredIds]_vars

\* C2: aps_handoff with a process_id no stored record has ends in
\* ProcessNotFound and changes neither the process documents nor the role
\* assignment file.
C2_UnknownIdNoEffect ==
  [][(ret'.op = "handoff" /\ AllRegistered /\ ret'.pid \notin StoredIds)
       => (ret'.outcome = "ProcessNotFound" /\ files' = files /\ roleFile' = roleFile)]_vars

\* C3: after a successful aps_handoff(process_id, target_role) on an
\* existing record, the record with that process_id has the status
\* waiting_for_<target_role lower-cased> and its messages are the previous
\* ones with one message appended, whose `to` is target_role as given.
C3_HandoffUpdatesRecord ==
  [][(ret'.op = "handoff" /\ ret'.outcome = "ok" /\ AllRegistered /\ ret'.pid \in StoredIds)
       => \A f \in DOMAIN files :
            files[f].proc.id = ret'.pid
              => /\ files'[f].proc.status = WaitingFor \o Lower(ret'.target)
                 /\ "messages" \in files'[f].proc.keys
                 /\ files'[f].proc.messages # <<>>
                 /\ SubSeq(files'[f].proc.messages, 1, Len(files'[f].proc.messages) - 1)
                      = MessagesOf(files[f])
                 /\ files'[f].proc.messages[Len(files'[f].proc.messages)].to = ret'.target]_vars

\* C4: after aps_init returns (role, session_id) the role assignment file
\* holds its previous lines, unchanged, and one new line with that role,
\* that session_id and the status active.
C4_AssignmentAppended ==
  [][(ret'.op = "init" /\ ret'.outcome = "ok")
       => /\ Len(roleFile'.lines) = Len(roleFile.lines) + 1
          /\ SubSeq(roleFile'.lines, 1, Len(roleFile.lines)) = roleFile.lines
          /\ LET parts == Split(Strip(roleFile'.lines[Len(roleFile'.lines)]), ":")
             IN /\ Len(parts) >= 4
                /\ parts[2] = ret'.role
                /\ parts[3] = ret'.session
                /\ parts[4] = ActiveWord]_vars

RECURSIVE EntriesMarkedActive(_)
\* The (role, session, status) of the lines with four or more fields whose
\* status field is `active`.
EntriesMarkedActive(lines) ==
  IF lines = <<>> THEN <<>>
  ELSE LET parts == Split(Strip(Head(lines)), ":")
       IN (IF Len(parts) >= 4 /\ parts[4] = ActiveWord
           THEN << <<parts[2], parts[3], parts[4]>> >>
           ELSE <<>>)
          \o EntriesMarkedActive(Tail(lines))

\* C5: aps_status lists as active agents exactly the entries of the role
\* assignment file whose status field is active.
C5_OnlyActiveListed ==
  (ret.op = "status" /\ roleFile.exists) => ret.agents = EntriesMarkedActive(roleFile.lines)

\* C6: aps_init, when the role assignment file exists, returns PM_Agent if
\* the directory holds no process document and Developer_Agent if it holds
\* one or more, whatever they contain.
C6_RoleByEmptiness ==
  (ret.op = "init" /\ ret.outcome = "ok")
    => ret.role = (IF DOMAIN files = {} THEN PM_Agent ELSE Developer_Agent)

\* C6 witness: aps_init returned Developer_Agent with a record waiting for
\* a role in the directory.
C6_Witness ==
  /\ ret.op = "init"
  /\ ret.outcome = "ok"
  /\ ret.role = Developer_Agent
  /\ \E f \in DOMAIN files : StartsWith(files[f].proc.status, WaitingFor)

\* A document aps_status cannot show: unparseable, empty, without a
\* process mapping, or without the process name.
Corrupted(doc) == doc.kind # "map" \/ doc.process # "map" \/ "name" \notin doc.proc.keys

\* process.status if present, else claim.status if present, else unknown
ResolvedStatus(doc) ==
  IF "status" \in doc.proc.keys THEN doc.proc.status
  ELSE IF doc.claim = "status" THEN doc.cstatus
  ELSE Unknown

\* C7: aps_status reports every document: a parse-error marker for a
\* corrupted one, the name and the resolved status for every other.
C7_StatusReportsEveryDocument ==
  ret.op = "status"
    => /\ ret.outcome = "ok"
       /\ DOMAIN ret.procs = DOMAIN files
       /\ \A f \in DOMAIN files :
            ret.procs[f] = (IF Corrupted(files[f]) THEN ParseError(f)
                            ELSE ProcessLine(files[f].proc.name, ResolvedStatus(files[f])))

\* The status (a one-element sequence, empty when the field is absent) and
\* the messages a reader of the document sees.
StatusAndMessages(doc) ==
  << IF "status" \in doc.proc.keys THEN <<doc.proc.status>> ELSE <<>>, MessagesOf(doc) >>

\* C8: while a handoff writes a record, whenever aps_status can read the
\* record its status and messages are both those from before the handoff
\* or both those from after it.
C8_StatusAndMessagesTogether ==
  \A c \in Callers :
    (hp[c].pc = "writing" /\ hp[c].filename \in DOMAIN files
       /\ ReportLine(hp[c].filename, files[hp[c].filename]).kind = "process")
      => StatusAndMessages(files[hp[c].filename])
           \in {StatusAndMessages(hp[c].before), StatusAndMessages(hp[c].data)}

\* C9: no command removes, reorders or changes a message of a stored
\* record (its messages only grow at the end), and a record's status is
\* never empty.
C9_MessagesAppendOnly ==
  [][AllRegistered
       => \A f \in DOMAIN files :
            /\ f \in DOMAIN files'
            /\ StartsWith(MessagesOf(files'[f]), MessagesOf(files[f]))
            /\ files'[f].proc.status # <<>>]_vars

\* C10: aps_handoff with the process_id of a stored record leaves every
\* record with another process_id as it was.
C10_OtherRecordsUnchanged ==
  [][(ret'.op = "handoff" /\ AllRegistered /\ ret'.pid \in StoredIds)
       => \A f \in DOMAIN files :
            files[f].proc.id # ret'.pid => files'[f] = files[f]]_vars

====
